---------------------------- MODULE Spec2Model ----------------------------
(***************************************************************************)
(* Model of coursera_scraper.js: the pure field extractors, the record     *)
(* builder, main's scroll loop and session handling, and the CSV export.   *)
(*                                                                         *)
(* A JavaScript string is a sequence of one-character strings (its UTF-16  *)
(* code units), so that split, trim, startsWith, replace, the regular      *)
(* expressions and the default sort order are computed, not assumed.       *)
(* Property names of objects are strings of the same kind.                 *)
(***************************************************************************)
EXTENDS Integers, Sequences, FiniteSets, TLC

(* ------------------------------ bounds --------------------------------- *)

\* Number of measurements, scrolls and pauses whose history is recorded.
MaxMeasured == 3
\* Longest review text handed to convertReviewsToNumeric.
MaxReviewLen == 4
\* Most cards on the rendered page.
MaxCards == 2
\* Most course objects / vocabulary entries in a direct call of saveToCsv.
MaxCourses == 2
MaxVocab == 2
\* Longest text after the optional label handed to cleanSkills.
MaxSkillsLen == 2

(* ------------------------------ strings -------------------------------- *)

\* The printable ASCII characters in code-unit order (U+0020 .. U+007E); the
\* quote, the parentheses, the asterisk, the backslash and the backtick are written by name.
Ascii ==
  << " ", "!", "U+0022", "#", "$", "%", "&", "'", "U+0028", "U+0029", "U+002A", "+", ",", "-",
     ".", "/", "0", "1", "2", "3", "4", "5", "6", "7", "8", "9", ":", ";",
     "<", "=", ">", "?", "@", "A", "B", "C", "D", "E", "F", "G", "H", "I",
     "J", "K", "L", "M", "N", "O", "P", "Q", "R", "S", "T", "U", "V", "W",
     "X", "Y", "Z", "[", "U+005C", "]", "^", "_", "U+0060", "a", "b", "c", "d", "e",
     "f", "g", "h", "i", "j", "k", "l", "m", "n", "o", "p", "q", "r", "s",
     "t", "u", "v", "w", "x", "y", "z", "{", "|", "}", "~" >>

\* UTF-16 code unit of an ASCII character.
CharCode(c) == 31 + (CHOOSE i \in 1..Len(Ascii) : Ascii[i] = c)

Digits == {"0", "1", "2", "3", "4", "5", "6", "7", "8", "9"}
IsDigit(c) == c \in Digits
DigitVal(c) == CharCode(c) - 48

\* String.prototype.toLowerCase on one code unit.
LowerChar(c) ==
  IF c \in {Ascii[i] : i \in 34..59} THEN Ascii[CharCode(c) - 31 + 32] ELSE c
ToLowerCase(s) == [i \in 1..Len(s) |-> LowerChar(s[i])]

IsSpace(c) == c = " "

\* s.slice(n): s without its first n code units.
Slice(s, n) == SubSeq(s, n + 1, Len(s))

RECURSIVE TrimStart(_)
TrimStart(s) ==
  IF s # <<>> /\ IsSpace(s[1]) THEN TrimStart(Tail(s)) ELSE s
RECURSIVE TrimEnd(_)
TrimEnd(s) ==
  IF s # <<>> /\ IsSpace(s[Len(s)]) THEN TrimEnd(SubSeq(s, 1, Len(s) - 1)) ELSE s
\* String.prototype.trim.
Trim(s) == TrimEnd(TrimStart(s))

\* s.startsWith(p)
StartsWith(s, p) == Len(p) <= Len(s) /\ SubSeq(s, 1, Len(p)) = p

\* s.indexOf(p), 1-based; 0 when p does not occur.
IndexOf(s, p) ==
  LET hits == {i \in 1..(Len(s) - Len(p) + 1) : SubSeq(s, i, i + Len(p) - 1) = p}
  IN  IF hits = {} THEN 0 ELSE CHOOSE i \in hits : \A j \in hits : i <= j

\* s.includes(p)
Includes(s, p) == IndexOf(s, p) # 0

\* s.replace(p, ""), p a string: the first occurrence only.
RemoveFirst(s, p) ==
  LET i == IndexOf(s, p)
  IN  IF i = 0 THEN s ELSE SubSeq(s, 1, i - 1) \o SubSeq(s, i + Len(p), Len(s))

\* s.split(d), d a non-empty string: always at least one piece.
RECURSIVE Split(_, _)
Split(s, d) ==
  LET i == IndexOf(s, d)
  IN  IF i = 0 THEN <<s>>
      ELSE <<SubSeq(s, 1, i - 1)>> \o Split(SubSeq(s, i + Len(d), Len(s)), d)

\* The order of the default Array.prototype.sort on strings: code units,
\* left to right, a proper prefix first.
RECURSIVE StrLess(_, _)
StrLess(a, b) ==
  IF b = <<>> THEN FALSE
  ELSE IF a = <<>> THEN TRUE
  ELSE IF a[1] # b[1] THEN CharCode(a[1]) < CharCode(b[1])
  ELSE StrLess(Tail(a), Tail(b))

\* arr.includes(x)
Has(arr, x) == \E i \in 1..Len(arr) : arr[i] = x

\* An optional value: undefined, or a string.
Undefined == [some |-> FALSE, text |-> <<>>]
Some(t) == [some |-> TRUE, text |-> t]
\* !x for an optional string: undefined and "" are falsy.
Falsy(x) == ~x.some \/ x.text = <<>>

\* All sequences over S of length at most n.
SeqsUpTo(S, n) == UNION {[1..k -> S] : k \in 0..n}

(* ------------------------------- numbers ------------------------------- *)

\* A JavaScript number that is a non-negative integer below 2^53, kept as
\* mega * 10^6 + units so that no intermediate value leaves 32 bits.
Million == 1000000
Num(n) == [mega |-> n \div Million, units |-> n % Million]
NumPred(x) ==
  IF x.units > 0 THEN [x EXCEPT !.units = x.units - 1]
  ELSE [mega |-> x.mega - 1, units |-> Million - 1]
IsNonNegInteger(x) == x.mega \in Nat /\ x.units \in 0..(Million - 1)

RECURSIVE Pow(_, _)
Pow(b, e) == IF e = 0 THEN 1 ELSE b * Pow(b, e - 1)
RECURSIVE PowMod(_, _, _)
PowMod(b, e, m) == IF e = 0 THEN 1 % m ELSE (b * PowMod(b, e - 1, m)) % m

\* Value of a run of decimal digits.
RECURSIVE DigitsVal(_)
DigitsVal(ds) ==
  IF ds = <<>> THEN 0 ELSE 10 * DigitsVal(SubSeq(ds, 1, Len(ds) - 1)) + DigitVal(ds[Len(ds)])

\* floor(log2(D / p)) for D >= 1.
FloorLog2(D, p) ==
  IF D >= p THEN CHOOSE e \in 0..31 : Pow(2, e) * p <= D /\ Pow(2, e) * p * 2 > D
  ELSE -(CHOOSE j \in 1..31 : D * Pow(2, j) >= p /\ D * Pow(2, j - 1) < p)

(* --------------------------- field extractors -------------------------- *)

\* The delimiter of extractMetadata as the source file spells it: a space,
\* the two code units U+00C2 and U+00B7, a space.
MetadataDelimiter == <<" ", "U+00C2", "U+00B7", " ">>

\* parts[i] || '' for a 1-based i.
PartOrEmpty(parts, i) == IF i <= Len(parts) THEN parts[i] ELSE <<>>

\* extractMetadata(metadataText): <<level, type, duration>>.
extractMetadata(metadataText) ==
  IF Falsy(metadataText) THEN << <<>>, <<>>, <<>> >>
  ELSE LET parts == Split(metadataText.text, MetadataDelimiter)
       IN  <<PartOrEmpty(parts, 1), PartOrEmpty(parts, 2), PartOrEmpty(parts, 3)>>

\* Last index of the maximal run of digits that starts at i (s[i] a digit).
RECURSIVE RunEnd(_, _)
RunEnd(s, i) ==
  IF i + 1 <= Len(s) /\ IsDigit(s[i + 1]) THEN RunEnd(s, i + 1) ELSE i

NoMatch == [found |-> FALSE, int |-> <<>>, frac |-> <<>>, unit |-> ""]

\* /(\d+(?:\.\d+)?)(K|M)/ tried at position i. \d+ is greedy and a shorter
\* run is always followed by a digit, so only the maximal runs can match;
\* the optional fraction is tried first, then skipped.
SuffixedAt(s, i) ==
  IF ~(i <= Len(s) /\ IsDigit(s[i])) THEN NoMatch
  ELSE
    LET e == RunEnd(s, i)
        hasFrac == e + 2 <= Len(s) /\ s[e + 1] = "." /\ IsDigit(s[e + 2])
        f == IF hasFrac THEN RunEnd(s, e + 2) ELSE e
    IN  IF hasFrac /\ f + 1 <= Len(s) /\ s[f + 1] \in {"K", "M"}
          THEN [found |-> TRUE, int |-> SubSeq(s, i, e),
                frac |-> SubSeq(s, e + 2, f), unit |-> s[f + 1]]
        ELSE IF e + 1 <= Len(s) /\ s[e + 1] \in {"K", "M"}
          THEN [found |-> TRUE, int |-> SubSeq(s, i, e), frac |-> <<>>,
                unit |-> s[e + 1]]
        ELSE NoMatch

\* reviewsText.match(/(\d+(?:\.\d+)?)(K|M)/): the leftmost match.
MatchSuffixed(s) ==
  LET hits == {i \in 1..Len(s) : SuffixedAt(s, i).found}
  IN  IF hits = {} THEN NoMatch
      ELSE SuffixedAt(s, CHOOSE i \in hits : \A j \in hits : i <= j)

\* reviewsText.match(/(\d+)/): the leftmost maximal run of digits, or <<>>.
MatchDigits(s) ==
  LET hits == {i \in 1..Len(s) : IsDigit(s[i])}
  IN  IF hits = {} THEN <<>>
      ELSE LET i == CHOOSE i \in hits : \A j \in hits : i <= j
           IN  SubSeq(s, i, RunEnd(s, i))

\* D * 10^(exp10 - f) as a number, D read with f decimals (f <= exp10).
Scaled(D, f, exp10) ==
  IF exp10 = 6
    THEN [mega |-> D \div Pow(10, f),
          units |-> (D % Pow(10, f)) * Pow(10, 6 - f)]
    ELSE Num(D * Pow(10, exp10 - f))

\* Math.floor(parseFloat(int.frac) * 10^exp10) in IEEE-754 double precision,
\* exp10 being 3 or 6 and the fraction at most exp10 digits long.
\* With D the digits read as an integer, f = Len(frac) and p = 10^f, the
\* exact product N = D * 10^(exp10 - f) is an integer.  parseFloat yields the
\* double x nearest to D/p: with ex = floor(log2(D/p)) and k = 52 - ex,
\* x = round(D * 2^k / p) / 2^k, so x * p * 2^k = D * 2^k - r when the
\* remainder r = D * 2^k mod p is rounded down (2r < p).  The product
\* x * 10^exp10 is then N - r * 10^(exp10 - f) / 2^k, which the multiplication
\* rounds to the double below N, and Math.floor to N - 1, exactly when
\* r > 0 and r * 10^(exp10 - f) exceeds half the spacing of the doubles
\* below N, that spacing being 2^(eN - ex) / 2^k with eN = floor(log2(N)),
\* halved when N is a power of two.  Rounding up never passes N + 1.
FloatScaleFloor(int, frac, exp10) ==
  LET D == DigitsVal(int \o frac)
      f == Len(frac)
      p == Pow(10, f)
      c == Pow(10, exp10 - f)
      ex == FloorLog2(D, p)
      r == ((D % p) * PowMod(2, 52 - ex, p)) % p
      L == IF exp10 = 3 THEN 9 ELSE 19
      sh == ex + L + 1 - exp10
      lhs == D * Pow(5, exp10)
      big == IF sh >= 0 THEN lhs >= Pow(2, sh) * p ELSE lhs * Pow(2, -sh) >= p
      U == IF big THEN Pow(2, L + 1) ELSE Pow(2, L)
      isPow2 == c = 1 /\ \E e \in 0..30 : Pow(2, e) = D
      Ub == IF isPow2 THEN U \div 2 ELSE U
  IN  IF D = 0 THEN Num(0)
      ELSE IF r # 0 /\ 2 * r < p /\ 2 * r * c > Ub THEN NumPred(Scaled(D, f, exp10))
      ELSE Scaled(D, f, exp10)

\* convertReviewsToNumeric(reviewsText), reviewsText a string or undefined.
convertReviewsToNumeric(reviewsText) ==
  IF Falsy(reviewsText) THEN Num(0)
  ELSE
    LET match == MatchSuffixed(reviewsText.text)
        numMatch == MatchDigits(reviewsText.text)
    IN  IF match.found /\ match.unit = "K" THEN FloatScaleFloor(match.int, match.frac, 3)
        ELSE IF match.found /\ match.unit = "M" THEN FloatScaleFloor(match.int, match.frac, 6)
        ELSE IF numMatch # <<>> THEN Num(DigitsVal(numMatch))
        ELSE Num(0)

SkillsLabel ==
  <<"S", "k", "i", "l", "l", "s", " ", "y", "o", "u", "'", "l", "l", " ", "g", "a", "i", "n", ":">>

\* cleanSkills(skillsText): the returned string, or a TypeError when the
\* argument is undefined (startsWith is read off undefined).
cleanSkills(skillsText) ==
  IF ~skillsText.some THEN [threw |-> TRUE, value |-> <<>>]
  ELSE IF StartsWith(skillsText.text, SkillsLabel)
    THEN [threw |-> FALSE, value |-> Trim(Slice(skillsText.text, Len(SkillsLabel)))]
  ELSE [threw |-> FALSE, value |-> Trim(skillsText.text)]

(* ---------------------------- record builder -------------------------- *)

kPartner == <<"p", "a", "r", "t", "n", "e", "r">>
kTitle == <<"t", "i", "t", "l", "e">>
kPlus == <<"p", "l", "u", "s">>
kLevel == <<"l", "e", "v", "e", "l">>
kType == <<"t", "y", "p", "e">>
kDuration == <<"d", "u", "r", "a", "t", "i", "o", "n">>
kDegree == <<"d", "e", "g", "r", "e", "e">>
kRating == <<"r", "a", "t", "i", "n", "g">>
kReviews == <<"r", "e", "v", "i", "e", "w", "s">>
kUrl == <<"u", "r", "l">>
kSkills == <<"s", "k", "i", "l", "l", "s">>

\* The fixed columns in the order saveToCsv lists them.
FixedColumns ==
  <<kPartner, kTitle, kPlus, kLevel, kType, kDuration, kDegree, kRating, kReviews, kUrl>>
FixedKeys == {FixedColumns[i] : i \in 1..Len(FixedColumns)}
\* The properties extractCourseInfo gives a course object.
CourseKeys == FixedKeys \cup {kSkills}

SiteOrigin == <<"h", "t", "t", "p", "s", ":", "/", "/", "w", "w", "w", ".", "c", "o", "u", "r", "s", "e", "r", "a", ".", "o", "r", "g">>
ReviewsWord == <<"r", "e", "v", "i", "e", "w", "s">>
DegreePhrase == <<"B", "u", "i", "l", "d", " ", "t", "o", "w", "a", "r", "d", " ", "a", " ", "d", "e", "g", "r", "e", "e">>
Dash == <<"-">>

\* elem.text() of a selection that may be empty.
Text(elem) == IF elem.some THEN elem.text ELSE <<>>
\* s || d
OrElse(s, d) == IF s = <<>> THEN d ELSE s

\* The review text of a card: the sibling right after the rating element,
\* kept only when it says "reviews" in any letter case.
ReviewsTextOf(card) ==
  IF card.rating.some /\ card.sibling.some
       /\ Includes(ToLowerCase(card.sibling.text), ReviewsWord)
    THEN Trim(card.sibling.text)
    ELSE <<>>

\* The skills text of a card before cleanSkills.
SkillsTextOf(card) ==
  IF card.skillsP.some
    THEN RemoveFirst(Trim(card.skillsP.text), SkillsLabel \o <<" ">>)
    ELSE <<>>

\* One iteration of courseCards.each in extractCourseInfo: the course object
\* of a card, a function from property names to values.
CourseOf(card) ==
  LET meta == extractMetadata(Some(IF card.metadataP.some
                                   THEN Trim(card.metadataP.text) ELSE <<>>))
  IN  [k \in CourseKeys |->
        CASE k = kTitle -> OrElse(Trim(Text(card.title)), <<>>)
          [] k = kPartner -> OrElse(Trim(Text(card.partner)), <<>>)
          [] k = kRating -> OrElse(Trim(Text(card.rating)), Dash)
          [] k = kReviews -> convertReviewsToNumeric(Some(ReviewsTextOf(card)))
          [] k = kSkills -> cleanSkills(Some(SkillsTextOf(card))).value
          [] k = kLevel -> meta[1]
          [] k = kType -> meta[2]
          [] k = kDuration -> meta[3]
          [] k = kUrl -> IF card.href.some /\ card.href.text # <<>>
                           THEN SiteOrigin \o card.href.text ELSE <<>>
          [] k = kPlus -> IF card.plus THEN <<"p", "l", "u", "s">> ELSE Dash
          [] k = kDegree -> IF card.degreeP.some /\ Includes(card.degreeP.text, DegreePhrase)
                              THEN kDegree ELSE Dash]

\* extractCourseInfo(htmlContent): one course per card, in document order.
extractCourseInfo(cards) == [i \in 1..Len(cards) |-> CourseOf(cards[i])]

(* ------------------------------ vocabulary ----------------------------- *)

\* course.skills ? course.skills.split(',').map(s => s.trim()) : []
\* (a course object without a skills property reads undefined).
SkillsOf(course) ==
  IF kSkills \notin DOMAIN course \/ course[kSkills] = <<>> THEN <<>>
  ELSE LET parts == Split(course[kSkills], <<",">>)
       IN  [i \in 1..Len(parts) |-> Trim(parts[i])]

\* Set.prototype.add on a Set kept in insertion order.
SetAdd(set, x) == IF Has(set, x) THEN set ELSE Append(set, x)

RECURSIVE AddAll(_, _)
AddAll(set, xs) == IF xs = <<>> THEN set ELSE AddAll(SetAdd(set, Head(xs)), Tail(xs))

\* main's loop over the courses: the Set of trimmed skills, insertion order.
RECURSIVE CollectSkills(_, _)
CollectSkills(set, cs) ==
  IF cs = <<>> THEN set ELSE CollectSkills(AddAll(set, SkillsOf(Head(cs))), Tail(cs))

\* Insert x into an ascending array, after the elements not greater than it.
RECURSIVE Insert(_, _)
Insert(sorted, x) ==
  IF sorted = <<>> THEN <<x>>
  ELSE IF StrLess(x, Head(sorted)) THEN <<x>> \o sorted
  ELSE <<Head(sorted)>> \o Insert(Tail(sorted), x)

\* The array left in insertion order.
Unsorted(arr) == arr

\* Array.prototype.sort() with the default comparison.
RECURSIVE Sort(_)
Sort(arr) == IF arr = <<>> THEN <<>> ELSE Insert(Sort(SubSeq(arr, 1, Len(arr) - 1)), arr[Len(arr)])

\* Array.from(uniqueSkills).sort() for main's courses.
UniqueSkillsArray(cs) == Sort(CollectSkills(<<>>, cs))

(* -------------------------------- export ------------------------------- *)

\* fieldnames of saveToCsv.
Fieldnames(vocab) == FixedColumns \o vocab

\* record[skill] = ... for each vocabulary entry in turn.
RECURSIVE AssignSkills(_, _, _)
AssignSkills(record, courseSkills, vocab) ==
  IF vocab = <<>> THEN record
  ELSE LET skill == Head(vocab)
           value == IF Has(courseSkills, skill) THEN skill ELSE <<>>
           next == [k \in DOMAIN record \cup {skill} |->
                      IF k = skill THEN value ELSE record[k]]
       IN  AssignSkills(next, courseSkills, Tail(vocab))

\* delete record[key]
Delete(record, key) == [k \in DOMAIN record \ {key} |-> record[k]]

\* The callback of courses.map in saveToCsv: a copy of the course with the
\* vocabulary properties assigned and then skills deleted.
RecordOf(course, vocab) == Delete(AssignSkills(course, SkillsOf(course), vocab), kSkills)

ExportRecords(cs, vocab) == [i \in 1..Len(cs) |-> RecordOf(cs[i], vocab)]

\* The cell the CSV writer puts in column id of a record: the property's
\* value, empty when the record has no such property.
Cell(record, id) == IF id \in DOMAIN record THEN record[id] ELSE <<>>

\* The row written for a record under a header.
Row(record, header) == [i \in 1..Len(header) |-> Cell(record, header[i])]

(* -------------------------------- inputs ------------------------------- *)

\* Page extents the session may report.
Heights == {100, 200}

Python == <<"P", "y", "t", "h", "o", "n">>
SQL == <<"S", "Q", "L">>

\* Texts of the skills paragraph of a card.
SkillParagraphs ==
  { <<"S", "k", "i", "l", "l", "s", " ", "y", "o", "u", "'", "l", "l", " ", "g", "a", "i", "n", ":", " ", "S", "Q", "L", ",", " ", "P", "y", "t", "h", "o", "n">>,
    <<"S", "k", "i", "l", "l", "s", " ", "y", "o", "u", "'", "l", "l", " ", "g", "a", "i", "n", ":", " ", "P", "y", "t", "h", "o", "n">>,
    <<"S", "Q", "L", ",", ",", "P", "y", "t", "h", "o", "n">>,
    <<",", "S", "Q", "L">>,
    <<" ", "P", "y", "t", "h", "o", "n", ",", " ">>,
    <<"s", "k", "i", "l", "l", "s">>,
    <<"S", "k", "i", "l", "l", "s", " ", "y", "o", "u", "'", "l", "l", " ", "g", "a", "i", "n", ":">> }

\* A card with a title and, possibly, a skills paragraph, nothing else.
PlainCard(skillsP) ==
  [title |-> Some(<<"T">>), partner |-> Undefined, rating |-> Undefined,
   sibling |-> Undefined, skillsP |-> skillsP, metadataP |-> Undefined,
   href |-> Undefined, plus |-> FALSE, degreeP |-> Undefined]

\* Cards with the other elements present, in several shapes.
FullCards ==
  { [title |-> Some(<<" ", "C", " ">>), partner |-> Some(<<"P">>),
     rating |-> Some(<<"4", ".", "8">>),
     sibling |-> Some(<<"4", ".", "1", "M", " ", "r", "e", "v", "i", "e", "w", "s">>),
     skillsP |-> Some(<<"S", "k", "i", "l", "l", "s", " ", "y", "o", "u", "'", "l", "l", " ", "g", "a", "i", "n", ":", " ", "S", "Q", "L">>),
     metadataP |-> Some(<<"L", " ", "U+00C2", "U+00B7", " ", "T">>),
     href |-> Some(<<"/", "x">>), plus |-> TRUE,
     degreeP |-> Some(DegreePhrase)],
    [title |-> Undefined, partner |-> Undefined,
     rating |-> Some(<<"4">>),
     sibling |-> Some(<<"4", "5", "7", " ", "R", "e", "v", "i", "e", "w", "s">>),
     skillsP |-> Undefined,
     metadataP |-> Some(<<"L">>),
     href |-> Some(<<>>), plus |-> FALSE,
     degreeP |-> Some(kDegree)],
    [title |-> Some(<<"T">>), partner |-> Undefined,
     rating |-> Undefined,
     sibling |-> Some(<<"1", "2", "K", " ", "r", "e", "v", "i", "e", "w", "s">>),
     skillsP |-> Undefined, metadataP |-> Undefined,
     href |-> Undefined, plus |-> FALSE, degreeP |-> Undefined] }

Cards ==
  {PlainCard(Undefined)} \cup {PlainCard(Some(p)) : p \in SkillParagraphs} \cup FullCards

\* The rendered pages: the cards in document order.
Pages == SeqsUpTo(Cards, MaxCards)

\* Course objects handed to saveToCsv by a caller of the module.
CallerCourse(titleText, skillsText) ==
  [k \in CourseKeys |->
    CASE k = kTitle -> titleText
      [] k = kSkills -> skillsText
      [] k = kReviews -> Num(457)
      [] k = kUrl -> SiteOrigin \o <<"/", "x">>
      [] OTHER -> Dash]
CallerCourses ==
  { CallerCourse(<<"X">>, <<"S", "Q", "L", ",", " ", "P", "y", "t", "h", "o", "n">>),
    CallerCourse(<<"Y">>, Python),
    CallerCourse(<<"Z">>, kTitle \o <<",">> \o kSkills),
    CallerCourse(<<"W">>, <<>>),
    Delete(CallerCourse(<<"V">>, <<>>), kSkills) }
\* Vocabulary entries a caller may pass.
CallerSkills == {Python, SQL, kTitle, kUrl, kSkills}

\* Review texts: every text over a small alphabet, and the documented ones.
ReviewAlphabet == {"1", "4", ".", "K", "M", "k"}
ReviewExamples ==
  { <<"1", "2", "K">>, <<"1", ".", "2", "M">>, <<"4", "5", "7">>, <<"1", "2", "k">>, <<"3", "2", ".", "3", "K">> }
ReviewInputs ==
  {Undefined} \cup {Some(s) : s \in SeqsUpTo(ReviewAlphabet, MaxReviewLen) \cup ReviewExamples}

\* Skills texts a caller may pass to cleanSkills: absent (undefined or null,
\* which fail alike on the property read), or a short text, bare, behind the
\* label, or behind a space and the label.
SkillsAlphabet == {" ", ",", "S"}
SkillsInputs ==
  {Undefined} \cup
  UNION { {Some(t), Some(SkillsLabel \o t), Some(<<" ">> \o SkillsLabel \o t)} :
            t \in SeqsUpTo(SkillsAlphabet, MaxSkillsLen) }

(* --------------------------------- state ------------------------------- *)

VARIABLES
  entry,          \* how the module is used: run as main, or one export called
  pc,             \* position in main or in the called function
  session,        \* the browser session: "none", "open", "closed"
  quitCalls,      \* number of calls of driver.quit
  lastHeight,     \* main's lastHeight
  measured,       \* the extents measured so far (the first MaxMeasured)
  scrolls,        \* scroll actions performed (counted up to MaxMeasured)
  sleeps,         \* settle pauses performed (counted up to MaxMeasured)
  converged,      \* number of times the loop was left by its break
  pending,        \* an exception is propagating through finally
  result,         \* main's promise: "none", "pending", "resolved", "rejected"
  html,           \* the captured page, a sequence of cards; <<>> before
  captured,       \* whether getPageSource has returned
  courses,        \* extractCourseInfo's result / saveToCsv's courses argument
  uniqueSkills,   \* uniqueSkillsArray / saveToCsv's uniqueSkills argument
  writers,        \* number of CSV writers created
  csvHeader,      \* the header ids given to the CSV writer
  csvRecords,     \* the records given to writeRecords
  write,          \* the file write: "none", "started", "done", "failed"
  writeStarts,    \* number of writeRecords calls
  log,            \* console messages printed
  reviewsText,    \* argument of a direct convertReviewsToNumeric call
  ret,            \* its return value
  skillsText,     \* argument of a direct cleanSkills call
  cleaned         \* its return value

vars ==
  <<entry, pc, session, quitCalls, lastHeight, measured, scrolls, sleeps,
    converged, pending, result, html, captured, courses, uniqueSkills, writers,
    csvHeader, csvRecords, write, writeStarts, log, reviewsText, ret,
    skillsText, cleaned>>

loaderVars == <<lastHeight, measured, scrolls, sleeps, converged>>
exportVars == <<writers, csvHeader, csvRecords, write, writeStarts>>
dataVars == <<html, captured, courses, uniqueSkills>>
callVars == <<entry, reviewsText, ret, skillsText, cleaned>>

\* History kept up to MaxMeasured entries; later entries are not recorded.
Record(history, x) ==
  IF Len(history) < MaxMeasured THEN Append(history, x) ELSE history
Count(n) == IF n < MaxMeasured THEN n + 1 ELSE n

NoCourses == "No courses found."
Extracted == "Extracted courses and saved"
FoundCards == "Found course cards"

Blank ==
  /\ session = "none" /\ quitCalls = 0
  /\ lastHeight = 0 /\ measured = <<>> /\ scrolls = 0 /\ sleeps = 0
  /\ converged = 0 /\ pending = FALSE
  /\ html = <<>> /\ captured = FALSE
  /\ writers = 0 /\ csvHeader = <<>> /\ csvRecords = <<>>
  /\ write = "none" /\ writeStarts = 0 /\ log = {}
  /\ ret = Num(0) /\ cleaned = <<>>

\* The module is either run (require.main === module: main is called) or
\* required, and then one of its exported functions is called.
InitMain ==
  /\ entry = "main" /\ pc = "build" /\ result = "pending"
  /\ courses = <<>> /\ uniqueSkills = <<>> /\ reviewsText = Undefined
  /\ skillsText = Undefined
  /\ Blank
InitSaveToCsv ==
  /\ entry = "saveToCsv" /\ pc = "save" /\ result = "none"
  /\ courses \in SeqsUpTo(CallerCourses, MaxCourses)
  /\ uniqueSkills \in SeqsUpTo(CallerSkills, MaxVocab)
  /\ reviewsText = Undefined /\ skillsText = Undefined
  /\ Blank
InitConvert ==
  /\ entry = "convertReviewsToNumeric" /\ pc = "convert" /\ result = "none"
  /\ courses = <<>> /\ uniqueSkills = <<>>
  /\ reviewsText \in ReviewInputs /\ skillsText = Undefined
  /\ Blank
InitCleanSkills ==
  /\ entry = "cleanSkills" /\ pc = "clean" /\ result = "none"
  /\ courses = <<>> /\ uniqueSkills = <<>>
  /\ reviewsText = Undefined /\ skillsText \in SkillsInputs
  /\ Blank

Init == InitMain \/ InitSaveToCsv \/ InitConvert \/ InitCleanSkills

(* --------------------------------- main -------------------------------- *)

\* await new Builder()...build() succeeds: the session exists.
Build ==
  /\ pc = "build"
  /\ session' = "open"
  /\ pc' = "get"
  /\ UNCHANGED <<quitCalls, loaderVars, pending, result, dataVars, exportVars, log, callVars>>

\* build() rejects: main rejects outside the try block, no session exists.
BuildFails ==
  /\ pc = "build"
  /\ result' = "rejected"
  /\ pc' = "end"
  /\ UNCHANGED <<session, quitCalls, loaderVars, pending, dataVars, exportVars, log, callVars>>

\* await driver.get(url)
Navigate ==
  /\ pc = "get"
  /\ pc' = "wait"
  /\ UNCHANGED <<session, quitCalls, loaderVars, pending, result, dataVars, exportVars, log, callVars>>

\* await driver.wait(until.elementsLocated(...), 10000)
WaitForCards ==
  /\ pc = "wait"
  /\ pc' = "measure0"
  /\ UNCHANGED <<session, quitCalls, loaderVars, pending, result, dataVars, exportVars, log, callVars>>

\* let lastHeight = await driver.executeScript('return document.body.scrollHeight')
MeasureInitial ==
  /\ pc = "measure0"
  /\ \E h \in Heights :
       /\ lastHeight' = h
       /\ measured' = Record(measured, h)
  /\ pc' = "scroll"
  /\ UNCHANGED <<session, quitCalls, scrolls, sleeps, converged, pending, result,
                 dataVars, exportVars, log, callVars>>

\* await driver.executeScript('window.scrollTo(0, document.body.scrollHeight);')
Scroll ==
  /\ pc = "scroll"
  /\ scrolls' = Count(scrolls)
  /\ pc' = "sleep"
  /\ UNCHANGED <<session, quitCalls, lastHeight, measured, sleeps, converged, pending,
                 result, dataVars, exportVars, log, callVars>>

\* await driver.sleep(1000)
Settle ==
  /\ pc = "sleep"
  /\ sleeps' = Count(sleeps)
  /\ pc' = "measure"
  /\ UNCHANGED <<session, quitCalls, lastHeight, measured, scrolls, converged, pending,
                 result, dataVars, exportVars, log, callVars>>

\* The exit test with the comparison slipped to "no growth".
LoopExitsNoGrowth(newHeight, last) == newHeight <= last

\* The loop's exit test on a new measurement: newHeight === lastHeight.
LoopExits(newHeight, last) == newHeight = last

\* const newHeight = await ...; if (newHeight === lastHeight) break;
\* lastHeight = newHeight;
Measure ==
  /\ pc = "measure"
  /\ \E newHeight \in Heights :
       /\ measured' = Record(measured, newHeight)
       /\ IF LoopExits(newHeight, lastHeight)
            THEN /\ converged' = converged + 1
                 /\ pc' = "getPageSource"
                 /\ UNCHANGED lastHeight
            ELSE /\ lastHeight' = newHeight
                 /\ pc' = "scroll"
                 /\ UNCHANGED converged
  /\ UNCHANGED <<session, quitCalls, scrolls, sleeps, pending, result, dataVars,
                 exportVars, log, callVars>>

\* const htmlContent = await driver.getPageSource()
GetPageSource ==
  /\ pc = "getPageSource"
  /\ html' \in Pages
  /\ captured' = TRUE
  /\ pc' = "extract"
  /\ UNCHANGED <<session, quitCalls, loaderVars, pending, result, courses, uniqueSkills,
                 exportVars, log, callVars>>

\* A command of the session rejects: control passes to the finally block
\* with the exception pending.
AwaitingDriver == {"get", "wait", "measure0", "scroll", "measure", "getPageSource"}
DriverFails ==
  /\ pc \in AwaitingDriver
  /\ pending' = TRUE
  /\ pc' = "finally"
  /\ UNCHANGED <<session, quitCalls, loaderVars, result, dataVars, exportVars, log, callVars>>

\* const courses = extractCourseInfo(htmlContent)
Extract ==
  /\ pc = "extract"
  /\ courses' = extractCourseInfo(html)
  /\ log' = log \cup {FoundCards}
  /\ pc' = "collect"
  /\ UNCHANGED <<session, quitCalls, loaderVars, pending, result, html, captured,
                 uniqueSkills, exportVars, callVars>>

\* The collection of the unique skills and their sort.
Collect ==
  /\ pc = "collect"
  /\ uniqueSkills' = UniqueSkillsArray(courses)
  /\ pc' = "save"
  /\ UNCHANGED <<session, quitCalls, loaderVars, pending, result, html, captured,
                 courses, exportVars, log, callVars>>

\* The guard with its negation dropped.
NoCoursesNegated(cs) == Len(cs) # 0

\* if (!courses.length)
NoCoursesGiven(cs) == Len(cs) = 0

\* Where control goes when saveToCsv returns.
AfterSave == IF entry = "main" THEN "finally" ELSE "returned"

\* saveToCsv(courses, outputFile, uniqueSkills), called by main or directly.
\* With no courses it prints and returns; otherwise it creates the writer,
\* builds the records and starts the write, whose promise it does not
\* return: the caller goes on while the write is in progress.
SaveToCsv ==
  /\ pc = "save"
  /\ IF NoCoursesGiven(courses)
       THEN /\ log' = log \cup {NoCourses}
            /\ UNCHANGED exportVars
       ELSE /\ writers' = writers + 1
            /\ csvHeader' = Fieldnames(uniqueSkills)
            /\ csvRecords' = ExportRecords(courses, uniqueSkills)
            /\ write' = "started"
            /\ writeStarts' = writeStarts + 1
            /\ UNCHANGED log
  /\ pc' = AfterSave
  /\ UNCHANGED <<session, quitCalls, loaderVars, pending, result, dataVars, callVars>>

\* finally { await driver.quit() ... : the call.
Quit ==
  /\ pc = "finally"
  /\ quitCalls' = quitCalls + 1
  /\ pc' = "quitting"
  /\ UNCHANGED <<session, loaderVars, pending, result, dataVars, exportVars, log, callVars>>

\* driver.quit() resolves: the session is released, and main settles with
\* the pending exception, if any.
QuitDone ==
  /\ pc = "quitting"
  /\ session' = "closed"
  /\ result' = IF pending THEN "rejected" ELSE "resolved"
  /\ pc' = "end"
  /\ UNCHANGED <<quitCalls, loaderVars, pending, dataVars, exportVars, log, callVars>>

\* driver.quit() rejects: main rejects with that error.
QuitFails ==
  /\ pc = "quitting"
  /\ result' = "rejected"
  /\ pc' = "end"
  /\ UNCHANGED <<session, quitCalls, loaderVars, pending, dataVars, exportVars, log, callVars>>

\* csvWriter.writeRecords(records) resolves: the file is written and closed,
\* and the then-callback prints.
WriteDone ==
  /\ write = "started"
  /\ write' = "done"
  /\ log' = log \cup {Extracted}
  /\ UNCHANGED <<pc, session, quitCalls, loaderVars, pending, result, dataVars, writers,
                 csvHeader, csvRecords, writeStarts, callVars>>

\* writeRecords rejects; nothing handles the rejection.
WriteFails ==
  /\ write = "started"
  /\ write' = "failed"
  /\ UNCHANGED <<pc, session, quitCalls, loaderVars, pending, result, dataVars, writers,
                 csvHeader, csvRecords, writeStarts, log, callVars>>

(* ----------------------------- direct calls ---------------------------- *)

\* convertReviewsToNumeric(reviewsText) called by a user of the module.
Convert ==
  /\ pc = "convert"
  /\ ret' = convertReviewsToNumeric(reviewsText)
  /\ pc' = "returned"
  /\ UNCHANGED <<entry, reviewsText, skillsText, cleaned, session, quitCalls,
                 loaderVars, pending, result, dataVars, exportVars, log>>

\* cleanSkills(skillsText) called by a user of the module: it returns a
\* string, or the TypeError leaves the call.
CleanSkills ==
  /\ pc = "clean"
  /\ LET r == cleanSkills(skillsText)
     IN  /\ pc' = IF r.threw THEN "threw" ELSE "returned"
         /\ cleaned' = r.value
  /\ UNCHANGED <<entry, reviewsText, ret, skillsText, session, quitCalls,
                 loaderVars, pending, result, dataVars, exportVars, log>>

(* ----------------------------- specification --------------------------- *)

MainStep ==
  \/ Build \/ BuildFails \/ Navigate \/ WaitForCards \/ MeasureInitial
  \/ Scroll \/ Settle \/ Measure \/ GetPageSource \/ DriverFails
  \/ Extract \/ Collect \/ SaveToCsv \/ Quit \/ QuitDone \/ QuitFails

WriteSettles == WriteDone \/ WriteFails

Next == MainStep \/ WriteSettles \/ Convert \/ CleanSkills

Spec == Init /\ [][Next]_vars

\* A run of main alone.
MainNext == MainStep \/ WriteSettles

\* A run of main in which the event loop runs a continuation that is ready
\* (every awaited command of the session settles) and a started file write
\* settles.  Extract, Collect and SaveToCsv are enabled exactly at their
\* position and always leave it, so weak fairness of each is written out as
\* "infinitely often not at the position, or the step is taken infinitely
\* often".
FairSpec ==
  /\ InitMain /\ [][MainNext]_vars
  /\ WF_vars(Build) /\ WF_vars(Navigate) /\ WF_vars(WaitForCards)
  /\ WF_vars(MeasureInitial) /\ WF_vars(Scroll) /\ WF_vars(Settle)
  /\ WF_vars(Measure) /\ WF_vars(GetPageSource)
  /\ ([]<>(pc # "extract") \/ []<><<Extract>>_vars)
  /\ ([]<>(pc # "collect") \/ []<><<Collect>>_vars)
  /\ ([]<>(pc # "save") \/ []<><<SaveToCsv>>_vars)
  /\ WF_vars(Quit) /\ WF_vars(QuitDone) /\ WF_vars(WriteDone)

(* --------------------------------- claims ------------------------------ *)

InLoop == entry = "main" /\ pc \in {"scroll", "sleep", "measure"}

\* C1: the scroll loop of main terminates for every sequence of measured
\* extents: once entered it is always left again (by convergence, by a
\* failure, or by a bound with an "incomplete load" outcome).
C1_ScrollLoopTerminates == InLoop ~> ~InLoop

\* Whether the counters and the history are still exact.
Exact == scrolls < MaxMeasured /\ Len(measured) < MaxMeasured

\* Consecutive recorded measurements 1..n all differ.
Differ(n) == \A i \in 1..(n - 1) : measured[i] # measured[i + 1]

\* C2: lastHeight starts as the initial extent; each iteration scrolls, then
\* pauses, then measures again; the loop is left at the first new measurement
\* equal to lastHeight and otherwise lastHeight takes the new measurement;
\* the loop is left by convergence at most once and the page is captured
\* only after it; on the extents 100, 200, 200 the loop stops at the third
\* measurement after exactly two scrolls.
C2_ConvergenceLoop ==
  entry = "main" =>
    /\ (pc = "scroll" /\ scrolls = 0) => (measured = <<lastHeight>> /\ sleeps = 0)
    /\ (pc = "scroll" /\ Exact) =>
         (sleeps = scrolls /\ Len(measured) = scrolls + 1)
    /\ (pc = "sleep" /\ Exact) =>
         (scrolls = sleeps + 1 /\ Len(measured) = scrolls)
    /\ (pc = "measure" /\ Exact) =>
         (scrolls = sleeps /\ Len(measured) = scrolls)
    /\ (InLoop /\ Len(measured) < MaxMeasured) =>
         (lastHeight = measured[Len(measured)] /\ Differ(Len(measured)) /\ converged = 0)
    /\ (pc = "getPageSource" /\ scrolls < MaxMeasured) =>
         /\ Len(measured) = scrolls + 1
         /\ measured[Len(measured)] = measured[Len(measured) - 1]
         /\ lastHeight = measured[Len(measured)]
         /\ Differ(Len(measured) - 1)
    /\ converged <= 1
    /\ InLoop => converged = 0
    /\ (captured \/ pc \in {"getPageSource", "extract", "collect", "save"}) => converged = 1
    /\ measured = <<100, 200>> => (converged = 0 /\ ~captured)
    /\ measured = <<100, 200, 200>> =>
         (converged = 1 /\ scrolls = 2 /\ sleeps = 2 /\ ~InLoop)

\* C2's case: the extents 100, 200, 200 were measured and the page captured.
C2_Witness == entry = "main" /\ measured = <<100, 200, 200>> /\ captured

\* C3: once the session exists, driver.quit is eventually called, exactly
\* once, on every path including a page that never stabilizes, and a
\* failure of the session is still surfaced after the release.
C3_SessionReleased ==
  /\ (session = "open") ~> (quitCalls = 1)
  /\ [](quitCalls <= 1)
  /\ []((pc = "end" /\ pending) => (quitCalls = 1 /\ result = "rejected"))

\* C4: in a run with at least one record the write is started once and has
\* completed before the next step, the release of the session, begins and
\* before main's promise settles; it never overlaps the release.
C4_WriteBeforeRelease ==
  entry = "main" =>
    /\ writeStarts <= 1
    /\ (quitCalls > 0 \/ result # "pending") => write # "started"

\* saveToCsv has been called and has returned.
SaveReturned ==
  \/ entry = "saveToCsv" /\ pc = "returned"
  \/ entry = "main" /\ captured /\ pc \in {"finally", "quitting", "end"}

\* C5: saveToCsv with an empty record list, whatever the vocabulary, creates
\* no writer and writes no file, reports "no records" and returns normally;
\* the run then ends as a success once the session is released.
C5_EmptyListNoFile ==
  (SaveReturned /\ courses = <<>>) =>
    /\ writers = 0 /\ writeStarts = 0 /\ write = "none"
    /\ csvHeader = <<>> /\ csvRecords = <<>>
    /\ NoCourses \in log /\ Extracted \notin log
    /\ ~pending
    /\ (entry = "main" /\ pc = "end" /\ session = "closed") => result = "resolved"

\* C5's case: a direct call with no courses and a non-empty vocabulary.
C5_Witness ==
  entry = "saveToCsv" /\ pc = "returned" /\ courses = <<>> /\ uniqueSkills # <<>>

TenFixedNames ==
  << <<"p", "a", "r", "t", "n", "e", "r">>, <<"t", "i", "t", "l", "e">>,
     <<"p", "l", "u", "s">>, <<"l", "e", "v", "e", "l">>, <<"t", "y", "p", "e">>,
     <<"d", "u", "r", "a", "t", "i", "o", "n">>, <<"d", "e", "g", "r", "e", "e">>,
     <<"r", "a", "t", "i", "n", "g">>, <<"r", "e", "v", "i", "e", "w", "s">>,
     <<"u", "r", "l">> >>

Elems(arr) == {arr[i] : i \in 1..Len(arr)}
AllSkills(cs) == UNION {Elems(SkillsOf(cs[i])) : i \in 1..Len(cs)}
Reverse(arr) == [i \in 1..Len(arr) |-> arr[Len(arr) + 1 - i]]
\* A course with its comma-separated skills in the opposite order.
RECURSIVE JoinComma(_)
JoinComma(parts) ==
  IF Len(parts) = 0 THEN <<>>
  ELSE IF Len(parts) = 1 THEN parts[1]
  ELSE parts[1] \o <<",">> \o JoinComma(Tail(parts))
SkillsReversed(course) ==
  [course EXCEPT ![kSkills] = JoinComma(Reverse(Split(course[kSkills], <<",">>)))]

\* C6: for a non-empty record list the header is the ten fixed names in
\* order followed by the vocabulary; the vocabulary is the union of the
\* skills of all records, each once, in ascending code-unit order; the same
\* header results with the records, or the skills of each, in another order.
C6_Header ==
  (entry = "main" /\ writers > 0) =>
    LET vocab == SubSeq(csvHeader, 11, Len(csvHeader))
    IN  /\ Len(csvHeader) >= 10
        /\ SubSeq(csvHeader, 1, 10) = TenFixedNames
        /\ vocab = uniqueSkills
        /\ Elems(vocab) = AllSkills(courses)
        /\ \A i \in 1..Len(vocab) : \A j \in 1..Len(vocab) :
             i < j => StrLess(vocab[i], vocab[j])
        /\ Fieldnames(UniqueSkillsArray(Reverse(courses))) = csvHeader
        /\ Fieldnames(UniqueSkillsArray([i \in 1..Len(courses) |->
              SkillsReversed(courses[i])])) = csvHeader

\* C6's case: a header with two skills that were met in descending order.
C6_Witness ==
  /\ entry = "main" /\ writers > 0 /\ Len(csvHeader) = 12
  /\ CollectSkills(<<>>, courses) # uniqueSkills

\* C7: in every export row the cell of a vocabulary column is the skill's
\* name when the record has the skill and empty otherwise; so every column
\* main builds is filled in some row; and for the skills "SQL, Python" and
\* "Python" the first row fills both columns, the second only Python.
C7_SkillCells ==
  writers > 0 =>
    /\ \A i \in 1..Len(courses) : \A j \in 1..Len(uniqueSkills) :
         Cell(csvRecords[i], uniqueSkills[j]) =
           IF Has(SkillsOf(courses[i]), uniqueSkills[j]) THEN uniqueSkills[j] ELSE <<>>
    /\ entry = "main" =>
         \A j \in 1..Len(uniqueSkills) : \E i \in 1..Len(courses) :
           Cell(csvRecords[i], uniqueSkills[j]) # <<>>
    /\ ( /\ Len(courses) = 2
         /\ SkillsOf(courses[1]) = <<SQL, Python>>
         /\ SkillsOf(courses[2]) = <<Python>>
         /\ uniqueSkills = <<Python, SQL>> ) =>
           /\ Row(csvRecords[1], uniqueSkills) = <<Python, SQL>>
           /\ Row(csvRecords[2], uniqueSkills) = <<Python, <<>> >>

\* C8: one export row per record, in input order, whose ten fixed columns
\* hold the record's own values whatever the vocabulary, and which has no
\* skills field.
C8_FixedColumnsKept ==
  writers > 0 =>
    /\ Len(csvRecords) = Len(courses)
    /\ \A i \in 1..Len(courses) :
         /\ \A k \in FixedKeys : Cell(csvRecords[i], k) = Cell(courses[i], k)
         /\ kSkills \notin DOMAIN csvRecords[i]

\* The course objects exist: extractCourseInfo has returned.
CoursesExtracted == entry = "main" /\ captured /\ pc # "extract"

IsTrimmed(s) == s = <<>> \/ (~IsSpace(s[1]) /\ ~IsSpace(s[Len(s)]))

\* C9: the skill entries of every record are trimmed and non-empty, so the
\* vocabulary holds no empty and no untrimmed string; reviews is a
\* non-negative integer and url is empty or begins with the site origin.
C9_RecordInvariant ==
  CoursesExtracted =>
    /\ \A i \in 1..Len(courses) :
         /\ \A e \in Elems(SkillsOf(courses[i])) : e # <<>> /\ IsTrimmed(e)
         /\ IsNonNegInteger(courses[i][kReviews])
         /\ courses[i][kUrl] = <<>> \/ StartsWith(courses[i][kUrl], SiteOrigin)
    /\ \A v \in Elems(uniqueSkills) : v # <<>> /\ IsTrimmed(v)

\* The value the suffixed form stands for: the number times 10^exp10,
\* truncated toward zero (the fraction has at most exp10 digits here).
ExactScaled(int, frac, exp10) == Scaled(DigitsVal(int \o frac), Len(frac), exp10)

\* C10: convertReviewsToNumeric returns a non-negative integer: 0 for absent
\* or empty input; for a number directly followed by K or M that number
\* times 1000 or 1000000 truncated toward zero; otherwise the value of the
\* first run of digits; otherwise 0.  "12K" gives 12000, "1.2M" 1200000,
\* "457" 457 and "12k" 12.
C10_ReviewCount ==
  (entry = "convertReviewsToNumeric" /\ pc = "returned") =>
    LET text == reviewsText.text
        m == MatchSuffixed(text)
        d == MatchDigits(text)
    IN  /\ IsNonNegInteger(ret)
        /\ Falsy(reviewsText) => ret = Num(0)
        /\ (~Falsy(reviewsText) /\ m.found) =>
             ret = ExactScaled(m.int, m.frac, IF m.unit = "K" THEN 3 ELSE 6)
        /\ (~Falsy(reviewsText) /\ ~m.found /\ d # <<>>) => ret = Num(DigitsVal(d))
        /\ (~Falsy(reviewsText) /\ ~m.found /\ d = <<>>) => ret = Num(0)
        /\ text = <<"1", "2", "K">> => ret = Num(12000)
        /\ text = <<"1", ".", "2", "M">> => ret = Num(1200000)
        /\ text = <<"4", "5", "7">> => ret = Num(457)
        /\ text = <<"1", "2", "k">> => ret = Num(12)

\* The text cleanSkills is to clean, once the leading label is taken off.
Unlabelled(text) ==
  IF StartsWith(text, SkillsLabel) THEN Slice(text, Len(SkillsLabel)) ELSE text

\* r is text without its surrounding whitespace.
IsTrimOf(r, text) ==
  /\ IsTrimmed(r)
  /\ \E i \in 0..Len(text) :
       /\ i + Len(r) <= Len(text)
       /\ SubSeq(text, i + 1, i + Len(r)) = r
       /\ \A j \in (1..i) \cup ((i + Len(r) + 1)..Len(text)) : IsSpace(text[j])

CleanSkillsLeft == entry = "cleanSkills" /\ pc \in {"returned", "threw"}

\* C11: cleanSkills is total: for every input, an absent one and the empty
\* string included, it returns a string and raises nothing; an absent or
\* empty input gives the empty string, and any other input gives the input
\* without its leading label "Skills you'll gain:" (when it has one) and
\* without surrounding whitespace.
C11_CleanSkillsTotal ==
  CleanSkillsLeft =>
    /\ pc = "returned"
    /\ Falsy(skillsText) => cleaned = <<>>
    /\ ~Falsy(skillsText) => IsTrimOf(cleaned, Unlabelled(skillsText.text))

=============================================================================
